---- MODULE Spec2Model ----
(***************************************************************************)
(* Model of the curam-ai-agent-mcp backends: the task classifier           *)
(* (analyzeTask), the model selector (selectOptimalModel), the Hugging     *)
(* Face invoker (callHuggingFaceModel) and the multi-model comparisons     *)
(* (compare_gemini_models, compare_all_models), in their HTTP form         *)
(* (server.js: the vendor wrappers return an error string) and their MCP   *)
(* form (mcp-server.js: the vendor wrappers throw McpError).               *)
(***************************************************************************)
EXTENDS Integers, Sequences, FiniteSets, TLC

VARIABLES
    variant,        \* "http": wrappers of server.js; "mcp": wrappers of the MCP server
    pc,             \* position of the running handler or function
    taskInput,      \* analyzeTask: the task text
    taskAnalysis,   \* analyzeTask: the value returned
    geminiOutcome,  \* analyzeTask: what the vendor answered to the classification call
    analyzePath,    \* analyzeTask: "none", "parsed" (try branch) or "fallback" (catch branch)
    geminiCalls,    \* number of classification calls issued by analyzeTask
    modelScores,    \* selectOptimalModel: the scored, sorted array
    selectedModel,  \* selectOptimalModel: the value returned
    modelId,        \* callHuggingFaceModel: the model invoked
    transport,      \* callHuggingFaceModel: what the vendor answers to the 1st, 2nd, ... call
    attempts,       \* callHuggingFaceModel: number of calls issued to the vendor
    hfResult,       \* callHuggingFaceModel: the value returned or the error thrown
    op,             \* the multi-model operation running
    requested,      \* multi-model operation: the ids of the models requested
    calls,          \* multi-model operation: state of each model's vendor call
    results,        \* multi-model operation: the settled value of each model's promise
    reply,          \* multi-model operation: the reply sent to the caller
    revision,       \* request: the source file whose handler serves it
    endpoint,       \* request: the route or tool requested
    env,            \* process.env: the set of credentials configured
    showReasoning,  \* request: show_reasoning of intelligent selection
    requestArgs,    \* request: what the request holds for the required argument
    callLog,        \* request: the vendor calls issued so far, in order of issue
    responseSent,   \* request: the response sent to the caller
    catalog,        \* the models array of the latest selectOptimalModel call
    served,         \* number of requests answered since process start
    conversationHistory,  \* advanced server: the conversation log
    contextStore,   \* advanced server: the key-value preference store
    received,       \* advanced server: number of CallTool requests received
    handlers        \* advanced server: the CallTool handlers, by order of arrival

vars == <<variant, pc, taskInput, geminiOutcome, taskAnalysis, analyzePath, geminiCalls,
          modelScores, selectedModel, modelId, transport, attempts, hfResult,
          op, requested, calls, results, reply,
          revision, endpoint, env, showReasoning, requestArgs, callLog, responseSent,
          catalog, served,
          conversationHistory, contextStore, received, handlers>>

analyzeVars == <<taskInput, geminiOutcome, taskAnalysis, analyzePath, geminiCalls>>
selectVars  == <<modelScores, selectedModel>>
invokeVars  == <<modelId, transport, attempts, hfResult>>
compareVars == <<op, requested, calls, results, reply>>
requestVars == <<revision, endpoint, env, showReasoning, requestArgs, callLog, responseSent,
                 catalog, served>>
advancedVars == <<conversationHistory, contextStore, received, handlers>>

\* ---------------------------------------------------------------- bounds
MaxPad == 252       \* task texts have 0..MaxPad filler characters before their word
MaxTransport == 3   \* a transport script answers at most MaxTransport calls
MaxRequests == 2    \* a process serves at most MaxRequests requests
MaxToolCalls == 3   \* the advanced server receives at most MaxToolCalls CallTool requests
MaxLookback == 2    \* lookback_messages is 0..MaxLookback, or the default

\* ------------------------------------------------------------ JS values
Undefined == "undefined"
Variants == {"http", "mcp"}

\* Array.prototype.includes
Includes(arr, x) == \E i \in 1..Len(arr) : arr[i] = x

\* ------------------------------------------------------------ task texts
Words == { <<>>,
           <<"c","r","e","a","t","i","v","e">>,
           <<"C","r","e","a","t","i","v","e">>,
           <<"c","r","e","a","t","i","v","e","l","y">> }

Texts == [pad : 0..MaxPad, word : Words]

\* the characters of a text: pad blanks, then its word
Chars(t) == [i \in 1..t.pad |-> " "] \o t.word

\* String.prototype.length
Length(t) == Len(Chars(t))

\* a match of whole words only: the needle is the word of the text
StringHasToken(t, needle) == t.word = needle

\* String.prototype.includes
StringIncludes(t, needle) ==
    LET s == Chars(t)
    IN  \E k \in 0..(Len(s) - Len(needle)) :
            \A j \in 1..Len(needle) : s[k + j] = needle[j]

\* Math.ceil(n / 4)
CeilDiv4(n) == IF n % 4 = 0 THEN n \div 4 ELSE (n \div 4) + 1

\* --------------------------------------------------------- task analyses
FieldNames == {"task_type", "complexity", "requirements", "estimated_tokens", "priority"}

TaskTypes == {"simple_question", "complex_analysis", "creative_writing",
              "technical", "classification", "other"}
Complexities == {"low", "medium", "high"}
Priorities == {"speed", "quality", "balance"}
RequirementLists == { <<"accuracy">>, <<"speed", "reasoning">> }
TokenEstimates == {0, 150}

\* the objects with all five fields that the classifier may answer
AnalysisObjects ==
    [task_type : TaskTypes, complexity : Complexities, requirements : RequirementLists,
     estimated_tokens : TokenEstimates, priority : Priorities]

\* a JS value that is not an object with properties: JSON.parse("null")
JsonNull == [isNull |-> TRUE]
\* the value of a variable that holds nothing yet
NoValue == [none |-> TRUE]

\* obj.f: undefined when the property is absent
Get(obj, f) == IF f \in DOMAIN obj THEN obj[f] ELSE Undefined

\* an object keeping only the properties of D
Restrict(obj, D) == [f \in D |-> obj[f]]

SampleAnalysis ==
    [task_type |-> "technical", complexity |-> "high", requirements |-> <<"speed", "reasoning">>,
     estimated_tokens |-> 150, priority |-> "quality"]

\* JSON values whose parse succeeds but which lack some (or no) field
PartialObjects == { Restrict(SampleAnalysis, D) : D \in SUBSET FieldNames }

\* a TaskAnalysis is complete when it holds all five fields
IsComplete(a) == FieldNames \subseteq DOMAIN a

\* ----------------------------------------------------------- vendor texts
\* a string returned by a vendor wrapper: free text, the text of a wrapper's
\* catch branch ("Gemini Pro Error: ..."), or the JSON text of a value
PlainText == [str |-> "plain", value |-> NoValue]
ErrorText == [str |-> "error_text", value |-> NoValue]
JsonText(v) == [str |-> "json", value |-> v]

\* JSON.parse: throws SyntaxError on a text that is not JSON
JSONParse(t) ==
    IF t.str = "json" THEN [threw |-> FALSE, value |-> t.value]
                      ELSE [threw |-> TRUE, value |-> NoValue]

\* what the Gemini endpoint can answer to one call
GeminiFailures == {"http_error", "network_error", "no_candidates"}
GeminiOutcome(k, t) == [kind |-> k, text |-> t]
NoOutcome == GeminiOutcome("none", PlainText)

\* callGeminiPro: the candidate text, or (catch) the error string in the HTTP
\* server and a thrown McpError in the MCP server
callGeminiPro(v, outcome) ==
    IF outcome.kind = "text"
    THEN [threw |-> FALSE, text |-> outcome.text]
    ELSE IF v = "http"
         THEN [threw |-> FALSE, text |-> ErrorText]
         ELSE [threw |-> TRUE, text |-> ErrorText]

\* a mis-placed boundary: the thresholds 50, 100 and 200 put in the upper class
FallbackAnalysisInclusive(text) ==
    [task_type |-> IF Length(text) >= 100 THEN "complex_analysis" ELSE "simple_question",
     complexity |-> IF Length(text) >= 200 THEN "high"
                    ELSE IF Length(text) >= 50 THEN "medium" ELSE "low",
     requirements |-> IF StringIncludes(text, <<"c","r","e","a","t","i","v","e">>)
                      THEN <<"creativity">> ELSE <<"accuracy">>,
     estimated_tokens |-> CeilDiv4(Length(text)),
     priority |-> "balance"]

\* a fallback that reads the task type off the text
FallbackAnalysisByKeyword(text) ==
    [task_type |-> IF StringIncludes(text, <<"c","r","e","a","t","i","v","e">>)
                   THEN "creative_writing"
                   ELSE IF Length(text) > 100 THEN "complex_analysis" ELSE "simple_question",
     complexity |-> IF Length(text) > 200 THEN "high"
                    ELSE IF Length(text) > 50 THEN "medium" ELSE "low",
     requirements |-> IF StringIncludes(text, <<"c","r","e","a","t","i","v","e">>)
                      THEN <<"creativity">> ELSE <<"accuracy">>,
     estimated_tokens |-> CeilDiv4(Length(text)),
     priority |-> "balance"]

\* the catch branch of analyzeTask
FallbackAnalysis(text) ==
    [task_type |-> IF Length(text) > 100 THEN "complex_analysis" ELSE "simple_question",
     complexity |-> IF Length(text) > 200 THEN "high"
                    ELSE IF Length(text) > 50 THEN "medium" ELSE "low",
     requirements |-> IF StringIncludes(text, <<"c","r","e","a","t","i","v","e">>)
                      THEN <<"creativity">> ELSE <<"accuracy">>,
     estimated_tokens |-> CeilDiv4(Length(text)),
     priority |-> "balance"]

\* analyzeTask: try { return JSON.parse(await callGeminiPro(..)) } catch { fallback }
analyzeTask(v, text, outcome) ==
    LET analysis == callGeminiPro(v, outcome)
        parsed == JSONParse(analysis.text)
    IN  IF analysis.threw \/ parsed.threw
        THEN [path |-> "fallback", value |-> FallbackAnalysis(text)]
        ELSE [path |-> "parsed", value |-> parsed.value]

\* ------------------------------------------------------- model selection
\* the catalog of selectOptimalModel, in source order
models == <<
    [id |-> "gemini_flash", name |-> "Gemini 1.5 Flash", provider |-> "Google",
     characteristics |-> <<"speed", "efficiency">>,
     bestFor |-> <<"simple_questions", "quick_responses">>,
     cost |-> "low", speed |-> "fast"],
    [id |-> "gemini_pro", name |-> "Gemini 1.5 Pro", provider |-> "Google",
     characteristics |-> <<"reasoning", "analysis">>,
     bestFor |-> <<"complex_analysis", "reasoning">>,
     cost |-> "medium", speed |-> "medium"],
    [id |-> "gpt2", name |-> "GPT-2", provider |-> "Hugging Face",
     characteristics |-> <<"creative_writing", "text_generation">>,
     bestFor |-> <<"creative_writing", "story_generation">>,
     cost |-> "very_low", speed |-> "medium"],
    [id |-> "bert-base-uncased", name |-> "BERT", provider |-> "Hugging Face",
     characteristics |-> <<"text_understanding", "classification">>,
     bestFor |-> <<"text_analysis", "classification">>,
     cost |-> "very_low", speed |-> "fast"] >>

\* a mis-scoring: one else-if chain that tests the task type first, so that
\* only the first criterion that matches counts
ScoreModelFirstMatch(ta, model) ==
    IF Get(ta, "task_type") = "creative_writing" /\ Includes(model.characteristics, "creative_writing") THEN 2
    ELSE IF Get(ta, "task_type") = "classification" /\ Includes(model.characteristics, "classification") THEN 2
    ELSE IF Get(ta, "task_type") = "complex_analysis" /\ Includes(model.characteristics, "analysis") THEN 2
    ELSE IF Get(ta, "complexity") = "low" /\ Includes(model.characteristics, "speed") THEN 3
    ELSE IF Get(ta, "complexity") = "high" /\ Includes(model.characteristics, "reasoning") THEN 3
    ELSE 0

\* a scoring that also reads the requirements of the task
ScoreModelByRequirements(ta, model) ==
    LET c == (IF Get(ta, "complexity") = "low" /\ Includes(model.characteristics, "speed")
              THEN 3 ELSE 0)
             + (IF Get(ta, "complexity") = "high" /\ Includes(model.characteristics, "reasoning")
                THEN 3 ELSE 0)
        t == (IF Get(ta, "task_type") = "creative_writing"
                 /\ Includes(model.characteristics, "creative_writing") THEN 2 ELSE 0)
             + (IF Get(ta, "task_type") = "classification"
                   /\ Includes(model.characteristics, "classification") THEN 2 ELSE 0)
             + (IF Get(ta, "task_type") = "complex_analysis"
                   /\ Includes(model.characteristics, "analysis") THEN 2 ELSE 0)
        p == (IF Get(ta, "priority") = "speed" /\ model.speed = "fast" THEN 1 ELSE 0)
             + (IF Get(ta, "priority") = "quality" /\ model.cost = "medium" THEN 1 ELSE 0)
        r == IF "requirements" \in DOMAIN ta
             THEN Cardinality({ k \in DOMAIN ta.requirements :
                                  Includes(model.characteristics, ta.requirements[k]) })
             ELSE 0
    IN  c + t + p + r

\* a scoring with a third complexity criterion: medium complexity matches the
\* models of medium speed
ScoreModelWithMedium(ta, model) ==
    LET c == (IF Get(ta, "complexity") = "low" /\ Includes(model.characteristics, "speed")
              THEN 3 ELSE 0)
             + (IF Get(ta, "complexity") = "high" /\ Includes(model.characteristics, "reasoning")
                THEN 3 ELSE 0)
             + (IF Get(ta, "complexity") = "medium" /\ model.speed = "medium" THEN 3 ELSE 0)
        t == (IF Get(ta, "task_type") = "creative_writing"
                 /\ Includes(model.characteristics, "creative_writing") THEN 2 ELSE 0)
             + (IF Get(ta, "task_type") = "classification"
                   /\ Includes(model.characteristics, "classification") THEN 2 ELSE 0)
             + (IF Get(ta, "task_type") = "complex_analysis"
                   /\ Includes(model.characteristics, "analysis") THEN 2 ELSE 0)
        p == (IF Get(ta, "priority") = "speed" /\ model.speed = "fast" THEN 1 ELSE 0)
             + (IF Get(ta, "priority") = "quality" /\ model.cost = "medium" THEN 1 ELSE 0)
    IN  c + t + p

\* a mis-scoring: the task-type criteria chained with else, so that at most
\* one of complexity and task type counts
ScoreModelChained(ta, model) ==
    LET c == IF Get(ta, "complexity") = "low" /\ Includes(model.characteristics, "speed") THEN 3
             ELSE IF Get(ta, "complexity") = "high" /\ Includes(model.characteristics, "reasoning") THEN 3
             ELSE IF Get(ta, "task_type") = "creative_writing" /\ Includes(model.characteristics, "creative_writing") THEN 2
             ELSE IF Get(ta, "task_type") = "classification" /\ Includes(model.characteristics, "classification") THEN 2
             ELSE IF Get(ta, "task_type") = "complex_analysis" /\ Includes(model.characteristics, "analysis") THEN 2
             ELSE 0
        p == IF Get(ta, "priority") = "speed" /\ model.speed = "fast" THEN 1
             ELSE IF Get(ta, "priority") = "quality" /\ model.cost = "medium" THEN 1
             ELSE 0
    IN  c + p

\* the body of the map callback: let score = 0; if (..) score += ..; ...
ScoreModel(ta, model) ==
    LET s0 == 0
        s1 == IF Get(ta, "complexity") = "low" /\ Includes(model.characteristics, "speed")
              THEN s0 + 3 ELSE s0
        s2 == IF Get(ta, "complexity") = "high" /\ Includes(model.characteristics, "reasoning")
              THEN s1 + 3 ELSE s1
        s3 == IF Get(ta, "task_type") = "creative_writing"
                 /\ Includes(model.characteristics, "creative_writing")
              THEN s2 + 2 ELSE s2
        s4 == IF Get(ta, "task_type") = "classification"
                 /\ Includes(model.characteristics, "classification")
              THEN s3 + 2 ELSE s3
        s5 == IF Get(ta, "task_type") = "complex_analysis"
                 /\ Includes(model.characteristics, "analysis")
              THEN s4 + 2 ELSE s4
        s6 == IF Get(ta, "priority") = "speed" /\ model.speed = "fast" THEN s5 + 1 ELSE s5
        s7 == IF Get(ta, "priority") = "quality" /\ model.cost = "medium" THEN s6 + 1 ELSE s6
    IN  s7

\* { ...model, score }
Scored(model, score) ==
    [id |-> model.id, name |-> model.name, provider |-> model.provider,
     characteristics |-> model.characteristics, bestFor |-> model.bestFor,
     cost |-> model.cost, speed |-> model.speed, score |-> score]

\* the sort comparator (a, b) => b.score - a.score
Compare(a, b) == b.score - a.score

\* an unstable insertion: x overtakes the elements it compares equal to
RECURSIVE InsertByScoreUnstable(_, _)
InsertByScoreUnstable(sorted, x) ==
    IF sorted = <<>> THEN <<x>>
    ELSE IF Compare(x, Head(sorted)) <= 0 THEN <<x>> \o sorted
    ELSE <<Head(sorted)>> \o InsertByScoreUnstable(Tail(sorted), x)

\* Array.prototype.sort is stable: x, which came later in the array, is put
\* before the first element that the comparator orders strictly after it
RECURSIVE InsertByScore(_, _)
InsertByScore(sorted, x) ==
    IF sorted = <<>> THEN <<x>>
    ELSE IF Compare(x, Head(sorted)) < 0 THEN <<x>> \o sorted
    ELSE <<Head(sorted)>> \o InsertByScore(Tail(sorted), x)

RECURSIVE SortByScore(_)
SortByScore(arr) ==
    IF arr = <<>> THEN <<>>
    ELSE InsertByScore(SortByScore(SubSeq(arr, 1, Len(arr) - 1)), arr[Len(arr)])

\* selectOptimalModel: map, sort, return modelScores[0]
ScoredModels(ta) == SortByScore([i \in 1..Len(models) |-> Scored(models[i], ScoreModel(ta, models[i]))])

\* ------------------------------------------------- states of idle parts
AnalyzeIdle ==
    /\ taskInput = [pad |-> 0, word |-> <<>>]
    /\ geminiOutcome = NoOutcome
    /\ taskAnalysis = NoValue
    /\ analyzePath = "none"
    /\ geminiCalls = 0

SelectIdle ==
    /\ modelScores = <<>>
    /\ selectedModel = NoValue

InvokeIdle ==
    /\ modelId = "none"
    /\ transport = <<>>
    /\ attempts = 0
    /\ hfResult = NoValue

CompareIdle ==
    /\ op = "none"
    /\ requested = <<>>
    /\ calls = <<>>
    /\ results = <<>>
    /\ reply = NoValue

RequestIdle ==
    /\ revision = "none"
    /\ endpoint = "none"
    /\ env = {}
    /\ showReasoning = FALSE
    /\ requestArgs = "none"
    /\ callLog = <<>>
    /\ responseSent = NoValue
    /\ catalog = <<>>
    /\ served = 0

AdvancedIdle ==
    /\ conversationHistory = <<>>
    /\ contextStore = <<>>
    /\ received = 0
    /\ handlers = <<>>

\* ------------------------------------------- analyzeTask as a process
\* the texts the classifier may answer with
ReplyTexts == {PlainText} \cup { JsonText(v) : v \in PartialObjects \cup {JsonNull} }

GeminiOutcomes ==
    { GeminiOutcome(k, PlainText) : k \in GeminiFailures }
        \cup { GeminiOutcome("text", t) : t \in ReplyTexts }

InitAnalyze ==
    /\ variant \in Variants
    /\ pc = "analyze_start"
    /\ taskInput \in Texts
    /\ geminiOutcome = NoOutcome
    /\ taskAnalysis = NoValue
    /\ analyzePath = "none"
    /\ geminiCalls = 0
    /\ SelectIdle /\ InvokeIdle /\ CompareIdle
    /\ RequestIdle /\ AdvancedIdle

\* analyzeTask up to its await: the classification call is issued
AnalyzeCall ==
    /\ pc = "analyze_start"
    /\ geminiCalls' = geminiCalls + 1
    /\ pc' = "analyze_await"
    /\ UNCHANGED <<variant, taskInput, geminiOutcome, taskAnalysis, analyzePath>>
    /\ UNCHANGED <<selectVars, invokeVars, compareVars, requestVars, advancedVars>>

\* the classification call settles and analyzeTask returns
AnalyzeSettle ==
    /\ pc = "analyze_await"
    /\ \E outcome \in GeminiOutcomes :
          LET r == analyzeTask(variant, taskInput, outcome)
          IN  /\ geminiOutcome' = outcome
              /\ taskAnalysis' = r.value
              /\ analyzePath' = r.path
    /\ pc' = "analyze_returned"
    /\ UNCHANGED <<variant, taskInput, geminiCalls>>
    /\ UNCHANGED <<selectVars, invokeVars, compareVars, requestVars, advancedVars>>

\* the caller of analyzeTask goes on: selectOptimalModel(taskAnalysis), which
\* throws a TypeError on taskAnalysis.complexity when the analysis is null
AnalyzeSelect ==
    /\ pc = "analyze_returned"
    /\ IF "isNull" \in DOMAIN taskAnalysis
       THEN /\ pc' = "analyze_threw"
            /\ UNCHANGED selectVars
       ELSE /\ modelScores' = ScoredModels(taskAnalysis)
            /\ selectedModel' = modelScores'[1]
            /\ pc' = "analyze_selected"
    /\ UNCHANGED <<variant, analyzeVars, invokeVars, compareVars, requestVars, advancedVars>>

NextAnalyze == AnalyzeCall \/ AnalyzeSettle \/ AnalyzeSelect

SpecAnalyze == InitAnalyze /\ [][NextAnalyze]_vars

\* ---------------------------------------- selectOptimalModel as a process
InitSelect ==
    /\ variant \in Variants
    /\ pc = "select_start"
    /\ taskInput = [pad |-> 0, word |-> <<>>]
    /\ geminiOutcome = NoOutcome
    /\ taskAnalysis \in AnalysisObjects \cup PartialObjects
    /\ analyzePath = "none"
    /\ geminiCalls = 0
    /\ SelectIdle /\ InvokeIdle /\ CompareIdle
    /\ RequestIdle /\ AdvancedIdle

\* selectOptimalModel(taskAnalysis)
SelectOptimalModel ==
    /\ pc = "select_start"
    /\ modelScores' = ScoredModels(taskAnalysis)
    /\ selectedModel' = modelScores'[1]
    /\ pc' = "selected"
    /\ UNCHANGED <<variant, analyzeVars, invokeVars, compareVars, requestVars, advancedVars>>

NextSelect == SelectOptimalModel

SpecSelect == InitSelect /\ [][NextSelect]_vars

\* ------------------------------------------------ Hugging Face invocation
\* what the Hugging Face endpoint can answer to one call.  Fulfilled
\* (transport-level success), by the shape of response.data:
HFFulfilled == {"generated",        \* [{generated_text: "..."}]
                "string",           \* a string
                "payload_loading",  \* an object saying the model is still loading
                "payload_rate",     \* an object saying the caller is rate limited
                "payload_other",    \* any other (malformed) payload
                "generated_empty",  \* [{generated_text: ""}]
                "array_text",       \* [{text: "..."}]
                "array_other"}      \* [{label: "...", score: ...}]
\* rejected by axios:
HFRejected == {"http_503", "http_429", "http_400", "network"}

HFOutcomes == HFFulfilled \cup HFRejected

HFModelIds == {"gpt2", "bert-base-uncased"}

\* the value a call of callHuggingFaceModel ends with
HFResult(threw, kind, mid, outcome) ==
    [threw |-> threw, kind |-> kind, model |-> mid, from |-> outcome]

\* a wrapper without its catch branch's error text: the rejection is turned
\* into an ordinary stringified response
callHuggingFaceModelLenient(v, mid, outcome) ==
    IF outcome = "generated" THEN HFResult(FALSE, "generated_text", mid, outcome)
    ELSE IF outcome = "string" THEN HFResult(FALSE, "string_data", mid, outcome)
    ELSE HFResult(FALSE, "stringified", mid, outcome)

\* callHuggingFaceModel after its single axios.post has settled: the three
\* response formats, or (catch) the error string in the HTTP server and a
\* thrown McpError in the MCP server
callHuggingFaceModel(v, mid, outcome) ==
    IF outcome \in HFFulfilled
    THEN IF outcome = "generated" THEN HFResult(FALSE, "generated_text", mid, outcome)
         ELSE IF outcome = "string" THEN HFResult(FALSE, "string_data", mid, outcome)
         ELSE HFResult(FALSE, "stringified", mid, outcome)
    ELSE IF v = "http"
         THEN HFResult(FALSE, "error_text", mid, outcome)
         ELSE HFResult(TRUE, "McpError", mid, outcome)

\* the invocation ended in failure: an error thrown, or the error string
IsFailure(r) == r.threw \/ r.kind = "error_text"

\* transport scripts: the answers the vendor would give to the 1st, 2nd, ... call
Scripts == UNION { [1..n -> HFOutcomes] : n \in 1..MaxTransport }

InitInvoke ==
    /\ variant \in Variants
    /\ pc = "invoke_start"
    /\ modelId \in HFModelIds
    /\ transport \in Scripts
    /\ attempts = 0
    /\ hfResult = NoValue
    /\ AnalyzeIdle /\ SelectIdle /\ CompareIdle
    /\ RequestIdle /\ AdvancedIdle

\* callHuggingFaceModel up to its await: axios.post is issued
InvokeCall ==
    /\ pc = "invoke_start"
    /\ attempts' = attempts + 1
    /\ pc' = "invoke_await"
    /\ UNCHANGED <<variant, modelId, transport, hfResult>>
    /\ UNCHANGED <<analyzeVars, selectVars, compareVars, requestVars, advancedVars>>

\* the call settles and callHuggingFaceModel returns or throws: there is no
\* loop around axios.post
InvokeSettle ==
    /\ pc = "invoke_await"
    /\ hfResult' = callHuggingFaceModel(variant, modelId, transport[attempts])
    /\ pc' = "invoke_returned"
    /\ UNCHANGED <<variant, modelId, transport, attempts>>
    /\ UNCHANGED <<analyzeVars, selectVars, compareVars, requestVars, advancedVars>>

NextInvoke == InvokeCall \/ InvokeSettle

SpecInvoke == InitInvoke /\ [][NextInvoke]_vars

\* ------------------------------------------------ multi-model operations
Operations == {"compare_all_models", "compare_gemini_models"}

GeminiIds == {"gemini_flash", "gemini_pro"}

\* what a vendor call of a comparison can end with
CompareOutcomes(m) ==
    IF m \in GeminiIds THEN {"text", "http_error", "network_error"}
                       ELSE {"generated", "http_503", "network"}

\* the vendor call itself succeeded
VendorSucceeded(outcome) == outcome \in {"text", "generated"}

\* callGeminiFlash: same shape as callGeminiPro, on the flash endpoint
callGeminiFlash(v, outcome) ==
    IF outcome.kind = "text"
    THEN [threw |-> FALSE, text |-> outcome.text]
    ELSE IF v = "http"
         THEN [threw |-> FALSE, text |-> ErrorText]
         ELSE [threw |-> TRUE, text |-> ErrorText]

\* model.call(): whether the wrapper threw, and the kind of string it returned
ModelCall(v, m, outcome) ==
    IF m = "gemini_flash"
    THEN LET r == callGeminiFlash(v, GeminiOutcome(outcome, PlainText))
         IN  [threw |-> r.threw, response |-> r.text.str]
    ELSE IF m = "gemini_pro"
    THEN LET r == callGeminiPro(v, GeminiOutcome(outcome, PlainText))
         IN  [threw |-> r.threw, response |-> r.text.str]
    ELSE LET r == callHuggingFaceModel(v, m, outcome)
         IN  [threw |-> r.threw, response |-> r.kind]

Entry(m, success, response, error) ==
    [model_id |-> m, success |-> success, response |-> response, error |-> error]

\* the async callback of models.map in compare_all_models: try / catch
\* around await model.call(); its promise is always fulfilled
ModelResult(v, m, outcome) ==
    LET r == ModelCall(v, m, outcome)
    IN  IF r.threw
        THEN [state |-> "fulfilled", value |-> Entry(m, FALSE, "none", "message")]
        ELSE [state |-> "fulfilled", value |-> Entry(m, TRUE, r.response, "none")]

\* an element of Promise.all([callGeminiFlash(prompt), callGeminiPro(prompt)]):
\* the wrapper's own promise, rejected when the wrapper throws
WrapperPromise(v, m, outcome) ==
    LET r == ModelCall(v, m, outcome)
    IN  IF r.threw
        THEN [state |-> "rejected", value |-> Entry(m, FALSE, "none", "message")]
        ELSE [state |-> "fulfilled", value |-> Entry(m, TRUE, r.response, "none")]

Pending(m) == [state |-> "pending", value |-> Entry(m, FALSE, "none", "none")]

Ids(seq) == { seq[i] : i \in 1..Len(seq) }

\* the models array of compare_all_models, by include_hugging_face
ModelsOf(o, include_hugging_face) ==
    IF o = "compare_all_models" /\ include_hugging_face
    THEN <<"gemini_flash", "gemini_pro", "gpt2", "bert-base-uncased">>
    ELSE <<"gemini_flash", "gemini_pro">>

InFlight == { m \in DOMAIN calls : calls[m] = "in_flight" }

\* the reply of compare_all_models once Promise.all(promises) is fulfilled
AllModelsReply(res) ==
    [status |-> "ok",
     comparison_results |-> [m \in DOMAIN res |-> res[m].value],
     total_models |-> Cardinality(DOMAIN res),
     successful_models |-> Cardinality({ m \in DOMAIN res : res[m].value.success })]

\* the reply of compare_gemini_models once Promise.all is fulfilled
GeminiReply(res) ==
    [status |-> "ok", responses |-> [m \in DOMAIN res |-> res[m].value]]

\* the reply when the handler throws: McpError, passed on by the catch
ErrorReply == [status |-> "McpError", code |-> "InternalError"]

InitCompare ==
    /\ variant \in Variants
    /\ pc = "compare_start"
    /\ op \in Operations
    /\ \E include_hugging_face \in BOOLEAN : requested = ModelsOf(op, include_hugging_face)
    /\ calls = [m \in Ids(requested) |-> "idle"]
    /\ results = [m \in Ids(requested) |-> Pending(m)]
    /\ reply = NoValue
    /\ AnalyzeIdle /\ SelectIdle /\ InvokeIdle
    /\ RequestIdle /\ AdvancedIdle

\* the handler up to await Promise.all: every model's call is issued, none
\* waits for another
CompareDispatch ==
    /\ pc = "compare_start"
    /\ calls' = [m \in DOMAIN calls |-> "in_flight"]
    /\ pc' = "compare_await"
    /\ UNCHANGED <<variant, op, requested, results, reply>>
    /\ UNCHANGED <<analyzeVars, selectVars, invokeVars, requestVars, advancedVars>>

\* one vendor call settles while the handler awaits Promise.all; the handler
\* goes on as soon as Promise.all settles: fulfilled when every promise is,
\* rejected with the first rejection
CompareSettle(m) ==
    /\ pc = "compare_await"
    /\ calls[m] = "in_flight"
    /\ \E outcome \in CompareOutcomes(m) :
          LET p == IF op = "compare_all_models"
                   THEN ModelResult(variant, m, outcome)
                   ELSE WrapperPromise(variant, m, outcome)
              res == [results EXCEPT ![m] = p]
          IN  /\ calls' = [calls EXCEPT ![m] = outcome]
              /\ results' = res
              /\ IF p.state = "rejected"
                 THEN reply' = ErrorReply /\ pc' = "compare_replied"
                 ELSE IF \A x \in DOMAIN res : res[x].state = "fulfilled"
                 THEN /\ reply' = IF op = "compare_all_models"
                                  THEN AllModelsReply(res) ELSE GeminiReply(res)
                      /\ pc' = "compare_replied"
                 ELSE reply' = reply /\ pc' = pc
    /\ UNCHANGED <<variant, op, requested>>
    /\ UNCHANGED <<analyzeVars, selectVars, invokeVars, requestVars, advancedVars>>

\* a vendor call settles after the handler has replied (Promise.all was
\* rejected while it was in flight): nothing listens any more
LateSettle(m) ==
    /\ pc = "compare_replied"
    /\ calls[m] = "in_flight"
    /\ \E outcome \in CompareOutcomes(m) :
          /\ calls' = [calls EXCEPT ![m] = outcome]
          /\ results' = [results EXCEPT ![m] = WrapperPromise(variant, m, outcome)]
    /\ UNCHANGED <<variant, pc, op, requested, reply>>
    /\ UNCHANGED <<analyzeVars, selectVars, invokeVars, requestVars, advancedVars>>

NextCompare ==
    \/ CompareDispatch
    \/ \E m \in DOMAIN calls : CompareSettle(m)
    \/ \E m \in DOMAIN calls : LateSettle(m)

SpecCompare == InitCompare /\ [][NextCompare]_vars

\* ------------------------------------------------------ request handling
\* the handlers of one process: POST /api/... of the HTTP servers (server.js
\* and its later revision) and the tools of the MCP server
Revisions(v) == IF v = "http" THEN {"server.js", "part_001"} ELSE {"part_000"}

Endpoints(rev) ==
    {"compare", "hugging_face", "intelligent_selection", "generate_image"}
        \cup (IF rev \in {"part_001", "part_000"} THEN {"compare_all_models"} ELSE {})
        \cup (IF rev \in {"server.js", "part_001"} THEN {"send_email"} ELSE {})
        \cup (IF rev = "part_000" THEN {"unknown_tool"} ELSE {})

\* what a request holds for its required argument (prompt, text, task, to):
\* a string, nothing, a value that is not a string, or, in a CallTool request,
\* no arguments object at all (params.arguments is optional)
ArgumentKinds(rev) ==
    IF rev = "part_000" THEN {"string", "missing", "non_string", "no_arguments"}
    ELSE {"string", "missing"}

Credentials == {"GEMINI_API_KEY", "HUGGING_FACE_API_KEY", "STABILITY_API_KEY",
                "MAILCHANNELS_API_KEY"}

\* the vendor behind a call target, and the credential its calls carry
VendorOf(target) ==
    IF target \in {"gemini_flash", "gemini_pro"} THEN "gemini"
    ELSE IF target \in {"gpt2", "bert-base-uncased"} THEN "hugging_face"
    ELSE target

KeyOf(vendor) ==
    IF vendor = "gemini" THEN "GEMINI_API_KEY"
    ELSE IF vendor = "hugging_face" THEN "HUGGING_FACE_API_KEY"
    ELSE IF vendor = "stability" THEN "STABILITY_API_KEY"
    ELSE "MAILCHANNELS_API_KEY"

\* the timeout option of axios, in ms; 0 (the default of axios) is no timeout
NoTimeout == 0
EmailTimeout == 10000
ImageTimeout == 120000

\* the timeout option each call site passes to axios.post
TimeoutOf(rev, vendor) ==
    IF vendor = "mailchannels" THEN EmailTimeout
    ELSE IF vendor = "stability" /\ rev = "part_001" THEN ImageTimeout
    ELSE NoTimeout

\* how a vendor call can end: a usable answer, an HTTP error status with or
\* without an error message in its body, a network failure, or (by the timer
\* of axios only) ECONNABORTED
Outcome(kind, status, vendorMessage) ==
    [kind |-> kind, status |-> status, vendorMessage |-> vendorMessage]

PendingOutcome == Outcome("pending", 0, FALSE)
TimeoutOutcome == Outcome("timeout", 0, FALSE)

StatusesOf(vendor) ==
    IF vendor = "gemini" THEN {400}
    ELSE IF vendor = "hugging_face" THEN {400, 503}
    ELSE IF vendor = "stability" THEN {400, 401, 404, 429, 500}
    ELSE {400, 401, 403}

VendorOutcomes(vendor) ==
    {Outcome("ok", 200, FALSE), Outcome("network", 0, FALSE)}
        \cup { Outcome("http_error", st, vm) : st \in StatusesOf(vendor), vm \in BOOLEAN }

\* a vendor call as issued by a wrapper
Call(rev, target, purpose) ==
    [vendor |-> VendorOf(target), target |-> target, purpose |-> purpose,
     timeout |-> TimeoutOf(rev, VendorOf(target)),
     state |-> "in_flight", outcome |-> PendingOutcome]

\* what a failure text says: error.response?.data?.error?.message || error.message
\* is the vendor's message when the reply holds one, else the message of the
\* axios error
ErrorMessage(outcome) ==
    IF outcome.kind = "http_error" /\ outcome.vendorMessage
    THEN "vendor_message" ELSE "error_message"

\* the catch branch of generateImage: a fixed text by error code or status in
\* the later HTTP revision, the message expression elsewhere
ImageErrorMessage(rev, outcome) ==
    IF rev = "part_001"
    THEN IF outcome.kind = "timeout" THEN "category"
         ELSE IF outcome.kind = "http_error" /\ outcome.status \in {401, 404, 429, 500}
              THEN "category"
         ELSE ErrorMessage(outcome)
    ELSE ErrorMessage(outcome)

\* a wrapper (callGeminiFlash, callGeminiPro, callHuggingFaceModel,
\* generateImage) once its axios.post has settled: the HTTP servers return the
\* error text, the MCP server throws McpError with it
WrapperResult(rev, call, outcome) ==
    IF outcome.kind = "ok"
    THEN [threw |-> FALSE, text |-> "answer", message |-> "none"]
    ELSE [threw |-> (rev = "part_000"), text |-> "error_text",
          message |-> IF call.vendor = "stability"
                      THEN ImageErrorMessage(rev, outcome)
                      ELSE ErrorMessage(outcome)]

\* ---- responses
NoConfidence == [reported |-> FALSE, num |-> 0, den |-> 1]

\* a score normalised by the largest score a descriptor can get
ConfidenceOverMax(score) == [reported |-> TRUE, num |-> score, den |-> 6]

\* confidence_score: selectedModel.score / 10, kept as the fraction num / den
Confidence(score) == [reported |-> TRUE, num |-> score, den |-> 10]

\* the response sent to the caller: its status, the kind of text it holds
\* ("answer", "error_text" or "none"), what its error text and its details
\* say, selected_model.id, confidence_score, and the per-model entries
Response(status, text, message, details, selected, confidence, entries) ==
    [status |-> status, text |-> text, message |-> message, details |-> details,
     selected |-> selected, confidence |-> confidence, entries |-> entries,
     code |-> "none"]

\* 400 { error: 'Prompt is required' } / McpError(InvalidParams)
ValidationError == Response("validation_error", "none", "category", "none", "none", NoConfidence, <<>>)
\* 500 { error: '... API key not configured' }
ConfigurationError == Response("config_error", "none", "category", "none", "none", NoConfidence, <<>>)
\* the outer catch: 500 { error: 'Internal server error' } /
\* McpError(InternalError, 'Tool execution failed: ...')
InternalError == Response("internal_error", "none", "category", "none", "none", NoConfidence, <<>>)
\* a failure of a vendor call shown as a failure
VendorError(message, details) ==
    Response("vendor_error", "error_text", message, details, "none", NoConfidence, <<>>)
\* default: McpError(MethodNotFound, 'Unknown tool: ...')
MethodNotFound == Response("method_not_found", "none", "category", "none", "none", NoConfidence, <<>>)

\* ---- errors of the CallTool handler
\* what is thrown inside the try block: an McpError with its code, or
\* another exception (a TypeError)
McpError(code) == [mcpError |-> TRUE, code |-> code]
OtherError == [mcpError |-> FALSE, code |-> "none"]

\* the exception behind each failure of a tool
ErrorThrown(status) ==
    IF status = "validation_error" THEN McpError("InvalidParams")
    ELSE IF status = "method_not_found" THEN McpError("MethodNotFound")
    ELSE IF status \in {"config_error", "vendor_error"} THEN McpError("InternalError")
    ELSE OtherError

\* catch (error) { if (error instanceof McpError) throw error;
\*                 throw new McpError(ErrorCode.InternalError, ...) }
Catch(error) == IF error.mcpError THEN error.code ELSE "InternalError"

\* the response as it leaves the handler: a failure of a tool leaves through
\* the catch clause, a failure of a route is sent by res.status(...).json
Delivered(rev, resp) ==
    IF rev = "part_000" /\ resp.status # "ok"
    THEN [resp EXCEPT !.code = Catch(ErrorThrown(resp.status))]
    ELSE resp

\* ---- the synchronous head of the handlers
\* the credential a handler tests before calling the vendor, if any
CheckedKey(rev, ep) ==
    IF ep = "hugging_face" THEN "HUGGING_FACE_API_KEY"
    ELSE IF ep = "send_email" THEN "MAILCHANNELS_API_KEY"
    ELSE IF ep = "generate_image" /\ rev = "part_001" THEN "STABILITY_API_KEY"
    ELSE "none"

\* handlers that test the credential and leave the argument to the vendor
PrecheckKeyOnly(rev, ep, kind, text, e) ==
    IF ep = "unknown_tool" THEN "method_not_found"
    ELSE IF kind = "no_arguments" THEN "internal_error"
    ELSE IF CheckedKey(rev, ep) # "none" /\ CheckedKey(rev, ep) \notin e
    THEN "config_error" ELSE "go"

\* the tests before the first vendor call: if (!prompt) ... (the tools:
\* if (!prompt || typeof prompt !== 'string') ...), if (!process.env.X) ...;
\* a tool without a case ends in the default label, and const { prompt } = args
\* throws a TypeError when args is undefined
Precheck(rev, ep, kind, text, e) ==
    LET invalid == kind # "string" \/ Length(text) = 0
        unconfigured == CheckedKey(rev, ep) # "none" /\ CheckedKey(rev, ep) \notin e
    IN  IF ep = "unknown_tool" THEN "method_not_found"
        ELSE IF kind = "no_arguments" THEN "internal_error"
        ELSE IF rev = "part_001" /\ ep = "hugging_face"
        THEN IF unconfigured THEN "config_error"
             ELSE IF invalid THEN "validation_error" ELSE "go"
        ELSE IF invalid THEN "validation_error"
             ELSE IF unconfigured THEN "config_error" ELSE "go"

\* the vendor calls a handler issues before its first await
FirstCalls(rev, ep, mid) ==
    IF ep = "compare"
    THEN <<Call(rev, "gemini_flash", "execute"), Call(rev, "gemini_pro", "execute")>>
    ELSE IF ep = "compare_all_models"
    THEN <<Call(rev, "gemini_flash", "execute"), Call(rev, "gemini_pro", "execute"),
           Call(rev, "gpt2", "execute"), Call(rev, "bert-base-uncased", "execute")>>
    ELSE IF ep = "hugging_face" THEN <<Call(rev, mid, "execute")>>
    ELSE IF ep = "intelligent_selection" THEN <<Call(rev, "gemini_pro", "classify")>>
    ELSE IF ep = "generate_image" THEN <<Call(rev, "stability", "execute")>>
    ELSE <<Call(rev, "mailchannels", "execute")>>

\* a switch without its bert-base-uncased label: that id falls to the default
ExecTargetNoBert(id) ==
    IF id = "gemini_flash" THEN "gemini_flash"
    ELSE IF id = "gemini_pro" THEN "gemini_pro"
    ELSE IF id = "gpt2" THEN id
    ELSE "gemini_flash"

\* switch (selectedModel.id): the wrapper called for the selected model
ExecTarget(id) ==
    IF id = "gemini_flash" THEN "gemini_flash"
    ELSE IF id = "gemini_pro" THEN "gemini_pro"
    ELSE IF id \in {"gpt2", "bert-base-uncased"} THEN id
    ELSE "gemini_flash"

\* the map callback seen from the catalog: the descriptor as the callback
\* leaves it, and the derived object it returns
MapCallbackInPlace(ta, model) ==
    LET scored == Scored(model, ScoreModel(ta, model))
    IN  [model |-> scored, entry |-> scored]

MapCallback(ta, model) ==
    [model |-> model, entry |-> Scored(model, ScoreModel(ta, model))]

\* the models array after selectOptimalModel has run on it
CatalogAfter(ta) == [i \in 1..Len(models) |-> MapCallback(ta, models[i]).model]

\* ---- the handlers after an await
\* the classifier's answer as analyzeTask sees it
AsGeminiOutcome(outcome, text) ==
    IF outcome.kind = "ok" THEN GeminiOutcome("text", text)
    ELSE IF outcome.kind = "no_candidates" THEN GeminiOutcome("no_candidates", PlainText)
    ELSE IF outcome.kind = "http_error" THEN GeminiOutcome("http_error", PlainText)
    ELSE GeminiOutcome("network_error", PlainText)

\* the texts the classifier answers with in a request
RequestAnalyses ==
    { a \in AnalysisObjects : /\ a.requirements = <<"accuracy">>
                              /\ a.estimated_tokens = 150
                              /\ a.task_type \notin {"technical", "other"} }

RequestReplyTexts ==
    {PlainText, JsonText(JsonNull), JsonText(Restrict(SampleAnalysis, {})),
     JsonText(Restrict(SampleAnalysis, FieldNames \ {"requirements"}))}
        \cup { JsonText(a) : a \in RequestAnalyses }

\* the part of the state a handler step writes
Step(p, log, sent, ta, go, path, scores, selected, cat) ==
    [pc |-> p, callLog |-> log, responseSent |-> sent, taskAnalysis |-> ta,
     geminiOutcome |-> go, analyzePath |-> path, modelScores |-> scores,
     selectedModel |-> selected, catalog |-> cat]

\* a step that only records the settled call
Waiting(log) ==
    Step(pc, log, responseSent, taskAnalysis, geminiOutcome, analyzePath,
         modelScores, selectedModel, catalog)

\* a step that sends the response
Replying(log, sent) ==
    Step("req_replied", log, sent, taskAnalysis, geminiOutcome, analyzePath,
         modelScores, selectedModel, catalog)

\* intelligent selection after await analyzeTask(task): selectOptimalModel,
\* then the call of the selected model's wrapper
AfterClassify(log, outcome, text) ==
    LET go == AsGeminiOutcome(outcome, text)
        r == analyzeTask(variant, taskInput, go)
    IN  IF "isNull" \in DOMAIN r.value
        THEN \* taskAnalysis.complexity of null: TypeError, to the outer catch
             Step("req_replied", log, InternalError, r.value, go, r.path,
                  modelScores, selectedModel, models)
        ELSE LET scores == ScoredModels(r.value)
             IN  Step("req_await",
                      Append(log, Call(revision, ExecTarget(scores[1].id), "execute")),
                      responseSent, r.value, go, r.path, scores, scores[1],
                      CatalogAfter(r.value))

\* the result object of intelligent selection
SelectionResult(r) ==
    IF showReasoning /\ "requirements" \notin DOMAIN taskAnalysis
    THEN InternalError   \* taskAnalysis.requirements.join of undefined: TypeError
    ELSE Response("ok", r.text, r.message, "none", selectedModel.id,
                  IF showReasoning THEN Confidence(selectedModel.score) ELSE NoConfidence,
                  <<>>)

\* the number of execution calls in the log
ExecCalls(log) == Cardinality({ k \in DOMAIN log : log[k].purpose = "execute" })

\* intelligent selection after the await of the selected model's wrapper
AfterExecute(log, i, outcome) ==
    LET r == WrapperResult(revision, log[i], outcome)
    IN  IF ~r.threw THEN Replying(log, SelectionResult(r))
        ELSE IF variant = "http" /\ ExecCalls(log) = 1
        THEN \* catch: fall back to Gemini Flash on the derived object
             Step("req_await", Append(log, Call(revision, "gemini_flash", "execute")),
                  responseSent, taskAnalysis, geminiOutcome, analyzePath, modelScores,
                  [selectedModel EXCEPT !.id = "gemini_flash", !.name = "Gemini 1.5 Flash"],
                  catalog)
        ELSE IF variant = "http" THEN Replying(log, InternalError)
        ELSE Replying(log, VendorError(r.message, "none"))

\* the per-model entries of a comparison
CompareEntries(log) ==
    [k \in DOMAIN log |->
        LET r == WrapperResult(revision, log[k], log[k].outcome)
        IN  [model |-> log[k].target, success |-> ~r.threw,
             text |-> r.text, message |-> r.message]]

\* compare and compare_all_models after one of their calls has settled
AfterCompare(log, i, outcome) ==
    LET r == WrapperResult(revision, log[i], outcome)
    IN  IF endpoint = "compare" /\ r.threw
        THEN Replying(log, VendorError(r.message, "none"))   \* Promise.all rejects
        ELSE IF \A k \in DOMAIN log : log[k].state = "settled"
        THEN Replying(log, Response("ok", "none", "none", "none", "none", NoConfidence,
                                    CompareEntries(log)))
        ELSE Waiting(log)

\* the handlers with a single vendor call, after its await
AfterSingle(log, i, outcome) ==
    LET r == WrapperResult(revision, log[i], outcome)
    IN  IF endpoint = "send_email"
        THEN IF outcome.kind = "ok"
             THEN Replying(log, Response("ok", "none", "none", "none", "none", NoConfidence, <<>>))
             ELSE \* { error: errorMessage, details: error.response?.data || error.message }
                  Replying(log, VendorError("category", ErrorMessage(outcome)))
        ELSE IF r.threw THEN Replying(log, VendorError(r.message, "none"))
        ELSE IF endpoint = "generate_image" /\ r.text = "error_text"
        THEN Replying(log, VendorError(r.message,
                                       IF revision = "part_001" THEN "category" ELSE "none"))
        ELSE Replying(log, Response("ok", r.text, r.message, "none", "none", NoConfidence, <<>>))

\* the continuation of the handler when call i settles with this outcome
AfterSettle(i, outcome, text) ==
    LET log == [callLog EXCEPT ![i].state = "settled", ![i].outcome = outcome]
    IN  IF endpoint = "intelligent_selection"
        THEN IF pc = "req_classify" THEN AfterClassify(log, outcome, text)
                                    ELSE AfterExecute(log, i, outcome)
        ELSE IF endpoint \in {"compare", "compare_all_models"}
        THEN AfterCompare(log, i, outcome)
        ELSE AfterSingle(log, i, outcome)

\* ---- a process serving requests
\* the task, prompt or message of a request: empty, short, long
RequestTexts ==
    { [pad |-> 0, word |-> <<>>],
      [pad |-> 0, word |-> <<"c","r","e","a","t","i","v","e">>],
      [pad |-> MaxPad, word |-> <<>>] }

\* process.env: every credential configured, one missing, or none
Envs == {Credentials, {}} \cup { Credentials \ {k} : k \in Credentials }

\* the inputs of a request
RequestInput(rev, ep, kind, text, show) ==
    /\ ep \in Endpoints(rev)
    /\ kind \in ArgumentKinds(rev)
    /\ text \in (IF kind = "string" THEN RequestTexts ELSE {[pad |-> 0, word |-> <<>>]})
    /\ show \in (IF ep = "intelligent_selection" THEN BOOLEAN ELSE {FALSE})

InitRequest ==
    /\ variant \in Variants
    /\ revision \in Revisions(variant)
    /\ env \in Envs
    /\ pc = "req_start"
    /\ RequestInput(revision, endpoint, requestArgs, taskInput, showReasoning)
    /\ geminiOutcome = NoOutcome
    /\ taskAnalysis = NoValue
    /\ analyzePath = "none"
    /\ geminiCalls = 0
    /\ SelectIdle
    /\ callLog = <<>>
    /\ responseSent = NoValue
    /\ catalog = models
    /\ served = 0
    /\ InvokeIdle /\ CompareIdle /\ AdvancedIdle

\* the handler up to its first await (or its early return)
ReqAccept ==
    /\ pc = "req_start"
    /\ LET check == Precheck(revision, endpoint, requestArgs, taskInput, env)
       IN  IF check = "go"
           THEN /\ \E mid \in HFModelIds : callLog' = FirstCalls(revision, endpoint, mid)
                /\ pc' = IF endpoint = "intelligent_selection" THEN "req_classify"
                                                               ELSE "req_await"
                /\ geminiCalls' = IF endpoint = "intelligent_selection" THEN geminiCalls + 1
                                                                        ELSE geminiCalls
                /\ UNCHANGED <<responseSent, served>>
           ELSE /\ responseSent' =
                      Delivered(revision,
                                IF check = "config_error" THEN ConfigurationError
                                ELSE IF check = "method_not_found" THEN MethodNotFound
                                ELSE IF check = "internal_error" THEN InternalError
                                ELSE ValidationError)
                /\ pc' = "req_replied"
                /\ served' = served + 1
                /\ UNCHANGED <<callLog, geminiCalls>>
    /\ UNCHANGED <<variant, revision, endpoint, env, showReasoning, requestArgs, catalog>>
    /\ UNCHANGED <<taskInput, geminiOutcome, taskAnalysis, analyzePath, selectVars>>
    /\ UNCHANGED <<invokeVars, compareVars, advancedVars>>

\* call i settles with this outcome and the handler goes on from its await
Settle(i, outcome, text) ==
    /\ pc \in {"req_classify", "req_await"}
    /\ callLog[i].state = "in_flight"
    /\ LET step == AfterSettle(i, outcome, text)
       IN  /\ pc' = step.pc
           /\ callLog' = step.callLog
           /\ responseSent' = IF step.pc = "req_replied"
                               THEN Delivered(revision, step.responseSent)
                               ELSE step.responseSent
           /\ taskAnalysis' = step.taskAnalysis
           /\ geminiOutcome' = step.geminiOutcome
           /\ analyzePath' = step.analyzePath
           /\ modelScores' = step.modelScores
           /\ selectedModel' = step.selectedModel
           /\ catalog' = step.catalog
           /\ served' = IF step.pc = "req_replied" THEN served + 1 ELSE served
    /\ UNCHANGED <<variant, revision, endpoint, env, showReasoning, requestArgs, taskInput,
                   geminiCalls>>
    /\ UNCHANGED <<invokeVars, compareVars, advancedVars>>

\* the vendor answers call i (or the connection fails)
VendorSettle(i) ==
    \E outcome \in VendorOutcomes(callLog[i].vendor) :
        \E text \in (IF callLog[i].purpose = "classify" /\ outcome.kind = "ok"
                     THEN RequestReplyTexts ELSE {PlainText}) :
            Settle(i, outcome, text)

\* the timer of axios ends call i: ECONNABORTED
Timeout(i) ==
    /\ callLog[i].timeout > NoTimeout
    /\ Settle(i, TimeoutOutcome, PlainText)

\* the next request arrives
NewRequest ==
    /\ pc = "req_replied"
    /\ served < MaxRequests
    /\ pc' = "req_start"
    /\ RequestInput(revision, endpoint', requestArgs', taskInput', showReasoning')
    /\ geminiOutcome' = NoOutcome
    /\ taskAnalysis' = NoValue
    /\ analyzePath' = "none"
    /\ geminiCalls' = 0
    /\ modelScores' = <<>>
    /\ selectedModel' = NoValue
    /\ callLog' = <<>>
    /\ responseSent' = NoValue
    /\ UNCHANGED <<variant, revision, env, catalog, served>>
    /\ UNCHANGED <<invokeVars, compareVars, advancedVars>>

NextRequest ==
    \/ ReqAccept
    \/ \E i \in DOMAIN callLog : VendorSettle(i)
    \/ \E i \in DOMAIN callLog : Timeout(i)
    \/ NewRequest

SpecRequest == InitRequest /\ [][NextRequest]_vars

\* the event loop runs every handler step that is ready, and the timers of
\* axios fire; nothing makes a vendor answer
SpecRequestFair ==
    /\ SpecRequest
    /\ WF_vars(ReqAccept)
    /\ WF_vars(\E i \in DOMAIN callLog : Timeout(i))

\* ------------------------------------------------------ advanced server
\* the tools with a case in the switch, and a name without one
AdvancedTools == {"intelligent_model_selection", "multi_model_consensus",
                  "workflow_orchestration", "analyze_conversation_context",
                  "learn_user_patterns"}
ToolNames == AdvancedTools \cup {"unknown_tool"}

\* lookback_messages = 10: the default of the destructuring, which an
\* arguments object without the property takes
DefaultLookback == 10

\* the values of interaction_data, task_description (undefined when the
\* property is absent) and performance_priority
Feedbacks == {"liked", "disliked"}
TaskDescriptions == {Undefined, "summarise"}
PerformancePriorities == {"speed", "quality", "cost", "balanced"}

\* request.params.arguments absent (undefined)
NoArguments ==
    [present |-> FALSE, lookback_messages |-> 0, interaction_data |-> "none",
     task_description |-> "none", performance_priority |-> "none"]

\* request.params.arguments: absent, or an object; of its properties the
\* model keeps those the tool's case reads
ToolArguments(name) ==
    {NoArguments} \cup
    (IF name = "analyze_conversation_context"
     THEN { [NoArguments EXCEPT !.present = TRUE, !.lookback_messages = n] :
                n \in (0..MaxLookback) \cup {DefaultLookback} }
     ELSE IF name = "learn_user_patterns"
     THEN { [NoArguments EXCEPT !.present = TRUE, !.interaction_data = d] : d \in Feedbacks }
     ELSE IF name = "intelligent_model_selection"
     THEN { [NoArguments EXCEPT !.present = TRUE, !.task_description = t,
                                !.performance_priority = p] :
                t \in TaskDescriptions, p \in PerformancePriorities }
     ELSE { [NoArguments EXCEPT !.present = TRUE] })

\* a log that keeps its latest entries only
HistoryPushCapped(history, entry) ==
    IF Len(history) >= 2 THEN Append(Tail(history), entry) ELSE Append(history, entry)

\* conversationHistory.push({ timestamp, tool, arguments })
HistoryPush(history, entry) == Append(history, entry)

\* Array.prototype.slice(-n): the last n elements; slice(-0) is slice(0)
SliceFromEnd(arr, n) ==
    LET start == IF n = 0 THEN 0
                 ELSE IF Len(arr) - n > 0 THEN Len(arr) - n ELSE 0
    IN  SubSeq(arr, start + 1, Len(arr))

\* the tools that reach an await before they return
AwaitingTools == {"intelligent_model_selection", "multi_model_consensus",
                  "workflow_orchestration", "analyze_conversation_context"}

\* the advanced server's analyzeTask(description): a fixed analysis
advancedAnalyzeTask(description) ==
    [complexity |-> "medium", domain |-> "general", requires_reasoning |-> TRUE,
     estimated_tokens |-> 150, task_type |-> "analysis"]

\* a selection that follows the caller's priority
advancedSelectByPriority(analysis, priority) ==
    IF priority # "speed" /\ (analysis.complexity = "high" \/ analysis.requires_reasoning)
    THEN [model |-> "gemini-pro", confidence |-> 85, alternatives |-> <<"gemini-flash">>]
    ELSE [model |-> "gemini-flash", confidence |-> 90, alternatives |-> <<"gemini-pro">>]

\* the advanced server's selectOptimalModel(analysis, priority); confidence
\* in hundredths
advancedSelectOptimalModel(analysis, priority) ==
    IF analysis.complexity = "high" \/ analysis.requires_reasoning
    THEN [model |-> "gemini-pro", confidence |-> 85, alternatives |-> <<"gemini-flash">>]
    ELSE [model |-> "gemini-flash", confidence |-> 90, alternatives |-> <<"gemini-pro">>]

\* a CallTool handler: its tool and arguments, where it stands, the number of
\* history entries its slice took (messages_analyzed), the
\* updated_preferences and the recommendation of its reply
Handler(name, args, state, analyzed, preferences, recommendation) ==
    [tool |-> name, arguments |-> args, state |-> state, analyzed |-> analyzed,
     preferences |-> preferences, recommendation |-> recommendation]

\* the handler from its entry to its first await, its return or its throw,
\* the push and the store update done; learn_user_patterns has no await and
\* serialises the store (getLatestUserPreferences) before it returns
HandlerHead(name, args, history, store) ==
    IF name \notin AdvancedTools
    THEN Handler(name, args, "returned", 0, <<>>, NoValue)   \* default:
    ELSE IF ~args.present
    THEN Handler(name, args, "threw", 0, <<>>, NoValue)   \* destructuring undefined
    ELSE IF name = "analyze_conversation_context"
    THEN Handler(name, args, "awaiting",
                 Len(SliceFromEnd(history, args.lookback_messages)), <<>>, NoValue)
    ELSE IF name \in AwaitingTools THEN Handler(name, args, "awaiting", 0, <<>>, NoValue)
    ELSE Handler(name, args, "returned", 0, store, NoValue)

\* the handler after its await: intelligent_model_selection goes on from
\* await analyzeTask(task_description) to selectOptimalModel and returns
HandlerTail(handler) ==
    IF handler.tool = "intelligent_model_selection"
    THEN [handler EXCEPT
            !.state = "returned",
            !.recommendation =
                advancedSelectOptimalModel(advancedAnalyzeTask(handler.arguments.task_description),
                                           handler.arguments.performance_priority)]
    ELSE [handler EXCEPT !.state = "returned"]

\* a store that keeps the first feedback it was given
StoreAfterKeepFirst(store, name, args, stamp) ==
    IF name = "learn_user_patterns" /\ args.present /\ DOMAIN store = {}
    THEN [k \in {"last_feedback"} |-> [data |-> args.interaction_data, timestamp |-> stamp]]
    ELSE store

\* updateUserPreferences: contextStore.set('last_feedback', { data, feedback,
\* weight, timestamp }); of the value the model keeps data and timestamp
StoreAfter(store, name, args, stamp) ==
    IF name = "learn_user_patterns" /\ args.present
    THEN [k \in {"last_feedback"} |-> [data |-> args.interaction_data, timestamp |-> stamp]]
    ELSE store

InitAdvanced ==
    /\ variant = "mcp"
    /\ pc = "serving"
    /\ conversationHistory = <<>>
    /\ contextStore = <<>>
    /\ received = 0
    /\ handlers = <<>>
    /\ AnalyzeIdle /\ SelectIdle /\ InvokeIdle /\ CompareIdle /\ RequestIdle

\* a CallTool request arrives: the handler runs to its first await
CallTool(name, args) ==
    /\ pc = "serving"
    /\ received < MaxToolCalls
    /\ received' = received + 1
    /\ conversationHistory' =
          HistoryPush(conversationHistory,
                      [timestamp |-> received + 1, tool |-> name, arguments |-> args])
    /\ contextStore' = StoreAfter(contextStore, name, args, received + 1)
    /\ handlers' = Append(handlers,
                          HandlerHead(name, args, conversationHistory', contextStore'))
    /\ UNCHANGED <<variant, pc>>
    /\ UNCHANGED <<analyzeVars, selectVars, invokeVars, compareVars, requestVars>>

\* the await of handler h resumes and the handler returns its content
ToolReturn(h) ==
    /\ pc = "serving"
    /\ handlers[h].state = "awaiting"
    /\ handlers' = [handlers EXCEPT ![h] = HandlerTail(handlers[h])]
    /\ UNCHANGED <<variant, pc, conversationHistory, contextStore, received>>
    /\ UNCHANGED <<analyzeVars, selectVars, invokeVars, compareVars, requestVars>>

NextAdvanced ==
    \/ \E name \in ToolNames : \E args \in ToolArguments(name) : CallTool(name, args)
    \/ \E h \in DOMAIN handlers : ToolReturn(h)

SpecAdvanced == InitAdvanced /\ [][NextAdvanced]_vars

\* ------------------------------------------------------ the whole program
\* each function or handler is entered on its own inputs
Init == InitAnalyze \/ InitSelect \/ InitInvoke \/ InitCompare \/ InitRequest \/ InitAdvanced

Next ==
    NextAnalyze \/ NextSelect \/ NextInvoke \/ NextCompare \/ NextRequest \/ NextAdvanced

Spec == Init /\ [][Next]_vars

\* ================================================================ claims

\* the classifier's answer is unusable: the call failed, the text is not
\* JSON, or the JSON value lacks one of the five fields
Unusable(outcome) ==
    \/ outcome.kind # "text"
    \/ outcome.text.str # "json"
    \/ ~IsComplete(outcome.text.value)

\* C1: whatever the classification call does, analyzeTask returns a complete
\* TaskAnalysis (all five fields), and whenever the remote output is
\* unusable what it returns is the deterministic fallback.
C1_AlwaysCompleteAnalysis ==
    pc = "analyze_returned" =>
        /\ IsComplete(taskAnalysis)
        /\ Unusable(geminiOutcome) =>
              /\ analyzePath = "fallback"
              /\ taskAnalysis = FallbackAnalysis(taskInput)

\* the score recorded in modelScores for the model with this id
IndexOf(mid) == CHOOSE i \in 1..Len(models) : models[i].id = mid

\* C2: selectOptimalModel returns a descriptor of maximal score over the
\* four-model catalog, and among the descriptors of maximal score the one
\* that comes first in catalog order.
C2_FirstMaximalModel ==
    pc = "selected" =>
        /\ Len(modelScores) = 4
        /\ \A i \in 1..Len(models) :
              \E j \in 1..Len(modelScores) :
                  /\ modelScores[j].id = models[i].id
                  /\ modelScores[j].score <= selectedModel.score
                  /\ i < IndexOf(selectedModel.id) => modelScores[j].score < selectedModel.score

\* a tie at a positive maximum: gemini_flash and bert-base-uncased both score
\* 1, and gemini_flash, first in the catalog, is returned
C2_Witness ==
    /\ pc = "selected"
    /\ selectedModel.id = "gemini_flash"
    /\ selectedModel.score = 1
    /\ \E j \in 1..Len(modelScores) :
          modelScores[j].id = "bert-base-uncased" /\ modelScores[j].score = 1

\* one term of the score
Term(cond, points) == IF cond THEN points ELSE 0

\* C3: the score of every descriptor is the sum of the seven terms: 3 (low,
\* speed), 3 (high, reasoning), 2 (creative_writing), 2 (classification),
\* 2 (complex_analysis, analysis), 1 (priority speed, fast), 1 (priority
\* quality, cost medium).
C3_ScoreIsSumOfTerms ==
    pc = "selected" =>
        \A j \in 1..Len(modelScores) :
            LET d == modelScores[j]
                has(c) == \E k \in 1..Len(d.characteristics) : d.characteristics[k] = c
                is(f, x) == f \in DOMAIN taskAnalysis /\ taskAnalysis[f] = x
            IN  d.score =
                    Term(is("complexity", "low") /\ has("speed"), 3)
                  + Term(is("complexity", "high") /\ has("reasoning"), 3)
                  + Term(is("task_type", "creative_writing") /\ has("creative_writing"), 2)
                  + Term(is("task_type", "classification") /\ has("classification"), 2)
                  + Term(is("task_type", "complex_analysis") /\ has("analysis"), 2)
                  + Term(is("priority", "speed") /\ d.speed = "fast", 1)
                  + Term(is("priority", "quality") /\ d.cost = "medium", 1)

\* three criteria add up: gemini_pro scores 3 + 2 + 1 for a high-complexity
\* complex_analysis task of priority quality
C3_Witness ==
    /\ pc = "selected"
    /\ Get(taskAnalysis, "complexity") = "high"
    /\ Get(taskAnalysis, "task_type") = "complex_analysis"
    /\ Get(taskAnalysis, "priority") = "quality"
    /\ selectedModel.id = "gemini_pro"
    /\ selectedModel.score = 6

\* C4: on the fallback path, for a text of length n: complexity is high if
\* n > 200, medium if 50 < n <= 200, low if n <= 50; task_type is
\* complex_analysis if n > 100, else simple_question; estimated_tokens is
\* ceil(n/4); priority is balance; 21 characters give {low, simple_question,
\* 6, balance} and 250 characters give {high, complex_analysis}.
C4_FallbackThresholds ==
    (pc = "analyze_returned" /\ analyzePath = "fallback") =>
        LET n == taskInput.pad + Len(taskInput.word)
            a == taskAnalysis
        IN  /\ IsComplete(a)
            /\ (n <= 50) => a.complexity = "low"
            /\ (50 < n /\ n <= 200) => a.complexity = "medium"
            /\ (n > 200) => a.complexity = "high"
            /\ (n <= 100) => a.task_type = "simple_question"
            /\ (n > 100) => a.task_type = "complex_analysis"
            /\ 4 * a.estimated_tokens >= n
            /\ 4 * (a.estimated_tokens - 1) < n
            /\ a.estimated_tokens >= 0
            /\ a.priority = "balance"
            /\ (n = 21) => (a.complexity = "low" /\ a.task_type = "simple_question"
                             /\ a.estimated_tokens = 6)
            /\ (n = 250) => (a.complexity = "high" /\ a.task_type = "complex_analysis")

\* the boundary length 200 on the fallback path: medium and complex_analysis
C4_Witness ==
    /\ pc = "analyze_returned"
    /\ analyzePath = "fallback"
    /\ taskInput.pad + Len(taskInput.word) = 200
    /\ taskAnalysis.complexity = "medium"
    /\ taskAnalysis.task_type = "complex_analysis"
    /\ taskAnalysis.estimated_tokens = 50

\* the outcomes the specification calls transient, and the fatal ones
TransientOutcomes == {"payload_loading", "payload_rate", "http_503", "http_429"}
FatalOutcomes == {"http_400", "network", "payload_other"}

\* C5: when every attempt is answered 'still loading', the invoker makes
\* exactly maxAttempts (3) attempts and then returns a Failure; no invocation
\* issues more than 3 calls.
C5_LoadingExhaustsThreeAttempts ==
    /\ attempts <= 3
    /\ (/\ pc = "invoke_returned"
        /\ Len(transport) >= 3
        /\ \A i \in 1..Len(transport) : transport[i] = "payload_loading")
       => (attempts = 3 /\ IsFailure(hfResult))

\* C6: a transient outcome on an attempt that is not the last is followed by
\* a further attempt: 'rate limited' on attempt 1 and success on attempt 2
\* give Success after exactly 2 attempts.
C6_TransientIsRetried ==
    /\ (/\ pc = "invoke_returned"
        /\ Len(transport) >= 2
        /\ transport[1] \in TransientOutcomes)
       => attempts >= 2
    /\ (/\ pc = "invoke_returned"
        /\ Len(transport) >= 2
        /\ transport[1] = "payload_rate"
        /\ transport[2] = "generated")
       => (attempts = 2 /\ ~IsFailure(hfResult) /\ hfResult.kind = "generated_text")

ReplyEntries ==
    IF "comparison_results" \in DOMAIN reply THEN DOMAIN reply.comparison_results
    ELSE IF "responses" \in DOMAIN reply THEN DOMAIN reply.responses
    ELSE {}

\* C8: a multi-model dispatch never has more than 3 vendor calls in flight
\* at the same time, whatever the number of models requested.
C8_AtMostThreeInFlight == Cardinality(InFlight) <= 3

\* C9: in compare_gemini_models and compare_all_models the failure of one
\* model's call does not abort the operation: when the operation replies,
\* every model's call has settled and the reply holds one result entry for
\* each requested model.
C9_WaitsForAllAndReportsEach ==
    pc = "compare_replied" =>
        /\ InFlight = {}
        /\ ReplyEntries = Ids(requested)

\* C10: in the result of compare_all_models a model is reported successful
\* if and only if its vendor call succeeded, successful_models counts the
\* models whose vendor call succeeded, and a model whose call failed is
\* reported with success = false and an error.
C10_SuccessReportedFaithfully ==
    (pc = "compare_replied" /\ op = "compare_all_models") =>
        /\ \A m \in Ids(requested) :
              /\ reply.comparison_results[m].success <=> VendorSucceeded(calls[m])
              /\ ~VendorSucceeded(calls[m]) => reply.comparison_results[m].error # "none"
        /\ reply.successful_models
              = Cardinality({ m \in Ids(requested) : VendorSucceeded(calls[m]) })

\* a request is being handled
RequestPending == pc \in {"req_start", "req_classify", "req_await"}

\* C11: every vendor network call carries a timeout, so that even when a
\* vendor never answers every request (compare, intelligent selection,
\* Hugging Face generation, image generation, email) eventually ends with a
\* response to the caller.
C11_EveryRequestTerminates ==
    /\ [](\A i \in DOMAIN callLog : callLog[i].timeout > NoTimeout)
    /\ (RequestPending ~> (pc = "req_replied"))

\* the credentials a request needs whatever its course
RequiredKeys(ep) ==
    IF ep = "unknown_tool" THEN {}
    ELSE IF ep \in {"compare", "intelligent_selection"} THEN {"GEMINI_API_KEY"}
    ELSE IF ep = "compare_all_models" THEN {"GEMINI_API_KEY", "HUGGING_FACE_API_KEY"}
    ELSE IF ep = "hugging_face" THEN {"HUGGING_FACE_API_KEY"}
    ELSE IF ep = "generate_image" THEN {"STABILITY_API_KEY"}
    ELSE {"MAILCHANNELS_API_KEY"}

\* C12: when the credential a request needs is not configured, the request
\* is rejected with a configuration error and no call to that vendor is
\* issued, on every path that reaches the vendor (intelligent selection and
\* compare-all-models included).
C12_NoCallWithoutCredential ==
    /\ \A i \in DOMAIN callLog : KeyOf(callLog[i].vendor) \in env
    /\ (/\ pc = "req_replied"
        /\ Length(taskInput) > 0
        /\ ~(RequiredKeys(endpoint) \subseteq env))
       => responseSent.status = "config_error"

\* the response carries the vendor's message about call i
CarriesVendorMessage(i) ==
    \/ responseSent.message = "vendor_message"
    \/ responseSent.details = "vendor_message"
    \/ /\ i \in DOMAIN responseSent.entries
       /\ responseSent.entries[i].message = "vendor_message"

\* C13: whenever a vendor call fails and the vendor's reply holds an error
\* message, the failure shown to the caller carries that message; a generic
\* category message is used only when the vendor supplied none.
C13_VendorMessageCarried ==
    (pc = "req_replied" /\ responseSent.status \in {"ok", "vendor_error"}) =>
        \A i \in DOMAIN callLog :
            (/\ callLog[i].purpose = "execute"
             /\ callLog[i].state = "settled"
             /\ callLog[i].outcome.kind = "http_error"
             /\ callLog[i].outcome.vendorMessage)
            => CarriesVendorMessage(i)

\* seq is a prefix of seq2
IsPrefix(seq, seq2) ==
    /\ Len(seq) <= Len(seq2)
    /\ \A k \in 1..Len(seq) : seq[k] = seq2[k]

\* C14: the conversation log of the advanced server is append-only: each
\* CallTool request appends exactly one entry before its tool runs (also
\* when the tool is unknown or fails), entries keep their arrival order, no
\* entry is removed or changed, and the length of the log is the number of
\* CallTool requests received.
C14_HistoryAppendOnly ==
    /\ [](/\ Len(conversationHistory) = received
          /\ Len(handlers) = received
          /\ \A k \in 1..Len(conversationHistory) :
                /\ conversationHistory[k].timestamp = k
                /\ k \in DOMAIN handlers => conversationHistory[k].tool = handlers[k].tool)
    /\ [][/\ IsPrefix(conversationHistory, conversationHistory')
          /\ Len(conversationHistory') = Len(conversationHistory)
                + (IF received' = received THEN 0 ELSE 1)]_vars

\* three requests received, among them an unknown tool and a tool that threw,
\* and the log holds the three entries
C14_Witness ==
    /\ received = 3
    /\ Len(conversationHistory) = 3
    /\ \E h \in DOMAIN handlers : handlers[h].state = "threw"
    /\ \E h \in DOMAIN handlers :
          handlers[h].tool = "unknown_tool" /\ conversationHistory[h].tool = "unknown_tool"

\* C15: the confidence_score reported by intelligent selection is the
\* selected model's score divided by 10, and it lies between 0 and 1.
C15_ConfidenceIsScoreOverTen ==
    (pc = "req_replied" /\ responseSent.confidence.reported) =>
        LET c == responseSent.confidence
        IN  /\ endpoint = "intelligent_selection"
            /\ c.num = selectedModel.score
            /\ c.den = 10
            /\ 0 <= c.num
            /\ c.num <= c.den

\* the largest score: gemini_pro with 3 + 2 + 1 = 6, reported as 6 / 10
C15_Witness ==
    /\ pc = "req_replied"
    /\ responseSent.status = "ok"
    /\ responseSent.selected = "gemini_pro"
    /\ responseSent.confidence = [reported |-> TRUE, num |-> 6, den |-> 10]

\* C16: on a clean success of a text-generation call the parsed response is
\* the first element's generated-text field when present, otherwise the first
\* element's text field when present, otherwise the stringified first element.
C16_FirstElementParsing ==
    pc = "invoke_returned" =>
        /\ transport[attempts] = "generated" => hfResult.kind = "generated_text"
        /\ transport[attempts] = "array_text" => hfResult.kind = "text_field"
        /\ transport[attempts] = "array_other" => hfResult.kind = "stringified_element"

\* the words a task text may hold
Creative == <<"c","r","e","a","t","i","v","e">>
CreativeCapital == <<"C","r","e","a","t","i","v","e">>
Creatively == <<"c","r","e","a","t","i","v","e","l","y">>

\* C17 as stated: on the fallback path requirements is {creativity} exactly
\* when the text holds the lower-case token "creative" (case-sensitive, exact
\* token match): "Creative" alone or a longer word such as "creatively"
\* gives {accuracy}.
C17_ExactTokenMatch ==
    (pc = "analyze_returned" /\ analyzePath = "fallback") =>
        /\ taskInput.word = Creative <=> taskAnalysis.requirements = <<"creativity">>
        /\ taskInput.word # Creative <=> taskAnalysis.requirements = <<"accuracy">>

\* C17 amended: on the fallback path requirements is {creativity} exactly
\* when the text holds the characters "creative" in a row, case-sensitive,
\* be it inside a longer word: "creative" and "creatively" give
\* {creativity}, "Creative" alone and a text without the word give {accuracy}.
C17_SubstringMatch ==
    (pc = "analyze_returned" /\ analyzePath = "fallback") =>
        /\ taskInput.word \in {Creative, Creatively}
              <=> taskAnalysis.requirements = <<"creativity">>
        /\ taskInput.word \in {<<>>, CreativeCapital}
              <=> taskAnalysis.requirements = <<"accuracy">>

\* a text holding only the longer word "creatively", on the fallback path
C17_Witness ==
    /\ pc = "analyze_returned"
    /\ analyzePath = "fallback"
    /\ taskInput.word = Creatively
    /\ taskAnalysis.requirements = <<"creativity">>

\* the five properties of a descriptor that C18 names
DescriptorFields == {"id", "name", "characteristics", "cost", "speed"}

\* C18: after any sequence of requests, every descriptor of the catalog that
\* a selection uses has the id, name, characteristics, cost and speed it had
\* at process start: scoring and the handlers modify derived copies only (no
\* descriptor gains or loses a property either).
C18_CatalogUnchanged ==
    /\ Len(catalog) = Len(models)
    /\ \A i \in 1..Len(models) :
          /\ DOMAIN catalog[i] = DOMAIN models[i]
          /\ \A f \in DescriptorFields : catalog[i][f] = models[i][f]

\* the second request of the process was an intelligent selection that
\* selected gpt2, after a first request had been answered
C18_Witness ==
    /\ served = 2
    /\ pc = "req_replied"
    /\ endpoint = "intelligent_selection"
    /\ responseSent.status = "ok"
    /\ responseSent.selected = "gpt2"
    /\ selectedModel.score > 0

\* the calls of the log that are in flight
CallsInFlight == { i \in DOMAIN callLog : callLog[i].state = "in_flight" }

\* C19: for one intelligent-selection request the vendor calls are issued in
\* this order and never concurrently: exactly one classification call (Gemini
\* Pro), then, once it has settled and a model is selected, exactly one
\* execution call to the selected model (gemini_flash and gemini_pro to
\* Gemini, gpt2 and bert-base-uncased to Hugging Face with that id); no
\* classification call is repeated.
C19_ClassifyThenExecute ==
    endpoint = "intelligent_selection" =>
        /\ Len(callLog) <= 2
        /\ Cardinality(CallsInFlight) <= 1
        /\ geminiCalls = Cardinality({ i \in DOMAIN callLog : callLog[i].purpose = "classify" })
        /\ Len(callLog) >= 1 =>
              /\ callLog[1].purpose = "classify"
              /\ callLog[1].target = "gemini_pro"
        /\ Len(callLog) = 2 =>
              /\ callLog[1].state = "settled"
              /\ "id" \in DOMAIN selectedModel
              /\ callLog[2].purpose = "execute"
              /\ callLog[2].target = selectedModel.id
              /\ callLog[2].vendor = IF selectedModel.id \in {"gpt2", "bert-base-uncased"}
                                     THEN "hugging_face" ELSE "gemini"
        /\ (pc = "req_replied" /\ responseSent.status = "ok") =>
              (Len(callLog) = 2 /\ CallsInFlight = {})

\* bert-base-uncased was selected and executed on Hugging Face after the one
\* classification call
C19_Witness ==
    /\ endpoint = "intelligent_selection"
    /\ pc = "req_replied"
    /\ responseSent.status = "ok"
    /\ responseSent.selected = "bert-base-uncased"
    /\ Len(callLog) = 2
    /\ callLog[2].target = "bert-base-uncased"
    /\ callLog[2].vendor = "hugging_face"

\* the characteristics a descriptor may be given
Characteristics == {"speed", "efficiency", "reasoning", "analysis", "creative_writing",
                    "text_generation", "text_understanding", "classification"}

\* the descriptor with one more characteristic
WithCharacteristic(d, c) == [d EXCEPT !.characteristics = Append(@, c)]

\* C20: scoring is monotonic: for every task analysis, adding a
\* characteristic to a descriptor (all else equal) never lowers its score.
C20_ScoringMonotonic ==
    pc = "selected" =>
        \A j \in 1..Len(modelScores) :
            \A c \in Characteristics :
                ScoreModel(taskAnalysis, WithCharacteristic(modelScores[j], c))
                    >= modelScores[j].score

\* a high-complexity creative_writing task: gpt2 scores 2, and 5 once it is
\* given the characteristic reasoning
C20_Witness ==
    /\ pc = "selected"
    /\ Get(taskAnalysis, "complexity") = "high"
    /\ Get(taskAnalysis, "task_type") = "creative_writing"
    /\ \E j \in 1..Len(modelScores) :
          /\ modelScores[j].id = "gpt2"
          /\ modelScores[j].score = 2
          /\ ScoreModel(taskAnalysis, WithCharacteristic(modelScores[j], "reasoning")) = 5

\* the required argument of the request is absent, empty or not a string
ArgumentInvalid == requestArgs # "string" \/ Length(taskInput) = 0

\* C21: in the MCP server an McpError raised while a tool runs reaches the
\* client with its original code: a missing or non-string required argument
\* gives InvalidParams, an unknown tool name gives MethodNotFound, a vendor
\* failure gives InternalError, and only exceptions that are not McpError are
\* converted to InternalError.
C21_ErrorCodePreserved ==
    (revision = "part_000" /\ pc = "req_replied") =>
        /\ (endpoint # "unknown_tool" /\ ArgumentInvalid)
              => responseSent.code = "InvalidParams"
        /\ (endpoint = "unknown_tool") => responseSent.code = "MethodNotFound"
        /\ (responseSent.status = "vendor_error") => responseSent.code = "InternalError"
        /\ (responseSent.status \in {"validation_error", "method_not_found",
                                     "config_error", "vendor_error"})
              => responseSent.code = ErrorThrown(responseSent.status).code
        /\ (responseSent.status = "ok") <=> (responseSent.code = "none")

\* C22: a request that fails input validation (HTTP 400 for a missing
\* argument, InvalidParams for a missing or non-string one) causes no vendor
\* call at all: in every handler the validation precedes the first vendor
\* call, so a request whose required argument is invalid never has a call in
\* its log, and a validation failure is answered with an empty log.
C22_NoCallOnInvalidInput ==
    /\ ArgumentInvalid => callLog = <<>>
    /\ (pc = "req_replied" /\ responseSent.status = "validation_error")
          => (ArgumentInvalid /\ callLog = <<>>)

\* a tool call with a prompt that is not a string has been refused, and an
\* HTTP request with no prompt is refused likewise (second request served)
C22_Witness ==
    /\ pc = "req_replied"
    /\ requestArgs \in {"non_string", "missing"}
    /\ responseSent.status = "validation_error"
    /\ endpoint \in {"compare", "compare_all_models", "intelligent_selection"}
    /\ "GEMINI_API_KEY" \in env
    /\ callLog = <<>>
    /\ served = 2

\* the execution call of the request has failed
ExecutionFailed ==
    \E i \in DOMAIN callLog : /\ callLog[i].purpose = "execute"
                              /\ callLog[i].state = "settled"
                              /\ callLog[i].outcome.kind # "ok"

\* C23: in the HTTP intelligent-selection endpoint the selected_model.id of
\* the reply always equals the id returned by selectOptimalModel, whatever the
\* vendor calls do: the wrappers never throw, so the fall-back-to-Gemini-Flash
\* branch is never executed (no second execution call, no rewritten id) and a
\* vendor failure is answered with HTTP 200.
C23_SelectedIdKept ==
    (variant = "http" /\ endpoint = "intelligent_selection") =>
        /\ ExecCalls(callLog) <= 1
        /\ ("id" \in DOMAIN selectedModel)
              => selectedModel.id = ScoredModels(taskAnalysis)[1].id
        /\ (pc = "req_replied" /\ responseSent.status = "ok")
              => responseSent.selected = ScoredModels(taskAnalysis)[1].id
        /\ (pc = "req_replied" /\ ExecutionFailed) => responseSent.status = "ok"

\* C24: when the task analysis comes from the fallback path the selected
\* model depends only on the text length n: gemini_flash for n <= 100 and
\* gemini_pro for n > 100; gpt2 and bert-base-uncased are never selected on
\* the fallback path.
C24_FallbackSelectsByLength ==
    (pc = "analyze_selected" /\ analyzePath = "fallback") =>
        LET n == Length(taskInput)
        IN  /\ (n <= 100) => selectedModel.id = "gemini_flash"
            /\ (n > 100) => selectedModel.id = "gemini_pro"
            /\ selectedModel.id \notin {"gpt2", "bert-base-uncased"}

\* a text of 101 characters that contains "creative", analysed by the
\* fallback after a failed classification call: Gemini Pro is selected
C24_Witness ==
    /\ pc = "analyze_selected"
    /\ analyzePath = "fallback"
    /\ Length(taskInput) = 101
    /\ taskInput.word = Creative
    /\ geminiOutcome.kind \in GeminiFailures
    /\ selectedModel.id = "gemini_pro"
    /\ selectedModel.score = 2

\* the complexity of the analysis earns no model a point
ComplexityUnmatched == Get(taskAnalysis, "complexity") \notin {"low", "high"}

\* C25: over all task analyses selectOptimalModel returns gpt2 exactly when
\* task_type is creative_writing and complexity is neither low nor high, and
\* bert-base-uncased exactly when task_type is classification and complexity
\* is neither low nor high; when no scoring criterion matches any model it
\* returns gemini_flash with score 0.
C25_HuggingFaceSelection ==
    (pc = "selected") =>
        /\ (selectedModel.id = "gpt2")
              <=> (Get(taskAnalysis, "task_type") = "creative_writing" /\ ComplexityUnmatched)
        /\ (selectedModel.id = "bert-base-uncased")
              <=> (Get(taskAnalysis, "task_type") = "classification" /\ ComplexityUnmatched)
        /\ (\A i \in DOMAIN modelScores : modelScores[i].score = 0)
              => (selectedModel.id = "gemini_flash" /\ selectedModel.score = 0)

\* BERT selected for a classification of medium complexity with priority
\* speed, where Gemini Flash also scores
C25_Witness ==
    /\ pc = "selected"
    /\ IsComplete(taskAnalysis)
    /\ taskAnalysis.task_type = "classification"
    /\ taskAnalysis.complexity = "medium"
    /\ taskAnalysis.priority = "speed"
    /\ selectedModel.id = "bert-base-uncased"
    /\ selectedModel.score = 3
    /\ \E i \in DOMAIN modelScores :
          modelScores[i].id = "gemini_flash" /\ modelScores[i].score = 1

\* the three fields selectOptimalModel reads
ScoringFields == {"complexity", "task_type", "priority"}

\* two analyses hold the same complexity, task_type and priority
AgreeOnScoringFields(a, b) == \A f \in ScoringFields : Get(a, f) = Get(b, f)

\* C26: the model selected, and its score, depend only on the complexity,
\* task_type and priority of the analysis: any analysis that agrees with the
\* one given on those three fields, whatever its requirements and
\* estimated_tokens, selects the same model with the same score.
C26_SelectionReadsThreeFields ==
    (pc = "selected") =>
        \A other \in AnalysisObjects \cup PartialObjects :
            AgreeOnScoringFields(taskAnalysis, other) =>
                /\ ScoredModels(other)[1].id = selectedModel.id
                /\ ScoredModels(other)[1].score = selectedModel.score

\* Gemini Pro selected for an analysis that requires speed and reasoning,
\* while an analysis equal on the three fields requires accuracy only
C26_Witness ==
    /\ pc = "selected"
    /\ IsComplete(taskAnalysis)
    /\ taskAnalysis.requirements = <<"speed", "reasoning">>
    /\ taskAnalysis.complexity = "high"
    /\ selectedModel.id = "gemini_pro"
    /\ \E other \in AnalysisObjects :
          /\ AgreeOnScoringFields(taskAnalysis, other)
          /\ other.requirements = <<"accuracy">>
          /\ other.estimated_tokens # taskAnalysis.estimated_tokens

\* the learn_user_patterns calls received so far that carried arguments, by
\* their position in the conversation log
LearnCalls ==
    { k \in DOMAIN conversationHistory :
        /\ conversationHistory[k].tool = "learn_user_patterns"
        /\ conversationHistory[k].arguments.present }

\* the latest of them
LastLearnCall == CHOOSE k \in LearnCalls : \A j \in LearnCalls : j <= k

\* C27: the preference store holds at most one key (last_feedback), only
\* learn_user_patterns changes it, and after any sequence of calls it holds
\* the data of the most recent learn_user_patterns call carried out; in every
\* interleaving of concurrent calls the updated_preferences in the reply to
\* a learn_user_patterns call shows that call's own feedback.
C27_StoreHoldsLatestFeedback ==
    /\ DOMAIN contextStore \subseteq {"last_feedback"}
    /\ (LearnCalls = {}) => (DOMAIN contextStore = {})
    /\ (LearnCalls # {}) =>
          /\ DOMAIN contextStore = {"last_feedback"}
          /\ contextStore["last_feedback"].data
                = conversationHistory[LastLearnCall].arguments.interaction_data
          /\ contextStore["last_feedback"].timestamp = LastLearnCall
    /\ \A h \in DOMAIN handlers :
          (/\ handlers[h].tool = "learn_user_patterns"
           /\ handlers[h].state = "returned") =>
              /\ DOMAIN handlers[h].preferences = {"last_feedback"}
              /\ handlers[h].preferences["last_feedback"].data
                    = handlers[h].arguments.interaction_data
              /\ handlers[h].preferences["last_feedback"].timestamp = h

\* two learn_user_patterns calls with different feedback arrived while an
\* earlier tool call was still awaiting: the store holds the second feedback
\* and the reply to the first shows the first
C27_Witness ==
    /\ Len(handlers) = 3
    /\ handlers[1].state = "awaiting"
    /\ handlers[2].tool = "learn_user_patterns"
    /\ handlers[3].tool = "learn_user_patterns"
    /\ handlers[2].state = "returned"
    /\ handlers[3].state = "returned"
    /\ handlers[2].arguments.interaction_data = "liked"
    /\ handlers[3].arguments.interaction_data = "disliked"
    /\ handlers[2].preferences["last_feedback"].data = "liked"
    /\ contextStore["last_feedback"].data = "disliked"

\* the smaller of two numbers
Min(a, b) == IF a <= b THEN a ELSE b

\* C28: for every non-negative integer lookback_messages n,
\* analyze_conversation_context reports messages_analyzed = min(n, length of
\* the conversation log including the current call), so it never analyzes
\* more than n entries.
C28_AnalyzesAtMostLookback ==
    \A h \in DOMAIN handlers :
        (/\ handlers[h].tool = "analyze_conversation_context"
         /\ handlers[h].arguments.present) =>
            /\ handlers[h].analyzed = Min(handlers[h].arguments.lookback_messages, h)
            /\ handlers[h].analyzed <= handlers[h].arguments.lookback_messages

====
